---- MODULE Spec2Model ----
(***************************************************************************)
(* Model of src/utils/pid.rs (PIDInfo: new / terminate / quarantine /      *)
(* Display, one implementation per target_os) and of the subprocess        *)
(* gateway exec_cmd of src/utils/tools.rs.                                 *)
(*                                                                         *)
(* Text is a sequence of one-character strings.  NUL, BadByte and Repl     *)
(* stand for the single characters U+0000, a byte that is not valid UTF-8, *)
(* and U+FFFD.                                                             *)
(***************************************************************************)
EXTENDS Integers, Sequences, FiniteSets, TLC

VARIABLES
    platform,   \* the target_os the crate was built for
    pid,        \* the argument of PIDInfo::new
    pc,         \* position of the caller / of the running function
    proc,       \* linux: what /proc/<pid>/ currently shows
    hist,       \* linux: every state proc went through during the lookup
    reads,      \* linux: outcome of each read done so far, and the instants of
                \* its system calls
    loc,        \* local variables of PIDInfo::new
    result,     \* value returned by PIDInfo::new
    cmds,       \* subprocesses spawned through exec_cmd, with their outcome
    lastout,    \* the standard output captured from the last subprocess
    log,        \* lines written with log::error!
    console,    \* lines written with println!
    op,         \* the method of PIDInfo the caller invoked on the record
    rendered    \* the text produced by Display::fmt

vars == <<platform, pid, pc, proc, hist, reads, loc, result, cmds, lastout,
          log, console, op, rendered>>

----------------------------------------------------------------------------
(* Bounds of the model *)

\* most lines in one output of procstat or of the WMI query
MaxLines == 3
\* most changes of the observed process during one lookup
MaxChanges == 2

----------------------------------------------------------------------------
(* Characters and text *)

NUL == "<NUL>"
BadByte == "<0xFF>"
Repl == "<U+FFFD>"

\* the characters of the model for which char::is_whitespace holds
WhiteSpace == {" ", "\t", "\n", "\r"}

NA == <<"N", "/", "A">>

Digits == <<"0", "1", "2", "3", "4", "5", "6", "7", "8", "9">>

\* u64::to_string: the decimal digits, most significant first
RECURSIVE to_string(_)
to_string(n) ==
    IF n < 10 THEN <<Digits[n + 1]>>
    ELSE to_string(n \div 10) \o <<Digits[(n % 10) + 1]>>

\* String::from_utf8_lossy and Path::display: invalid bytes become U+FFFD
from_utf8_lossy(bytes) ==
    [i \in DOMAIN bytes |-> IF bytes[i] = BadByte THEN Repl ELSE bytes[i]]

display(path) == from_utf8_lossy(path)

ValidUtf8(bytes) == \A i \in DOMAIN bytes : bytes[i] # BadByte

\* Option / Result values
None == [tag |-> "None"]
Some(v) == [tag |-> "Some", val |-> v]
Ok(v) == [tag |-> "Ok", val |-> v]
Err == [tag |-> "Err"]
NoResult == [tag |-> "pending"]

RECURSIVE TrimStart(_)
TrimStart(s) ==
    IF s # <<>> /\ Head(s) \in WhiteSpace THEN TrimStart(Tail(s)) ELSE s

RECURSIVE TrimEnd(_)
TrimEnd(s) ==
    IF s # <<>> /\ s[Len(s)] \in WhiteSpace
    THEN TrimEnd(SubSeq(s, 1, Len(s) - 1))
    ELSE s

\* str::trim
trim(s) == TrimEnd(TrimStart(s))

\* index of the first occurrence of pattern pat in s at or after i, 0 if none
RECURSIVE Find(_, _, _)
Find(s, pat, i) ==
    IF i + Len(pat) - 1 > Len(s) THEN 0
    ELSE IF SubSeq(s, i, i + Len(pat) - 1) = pat THEN i
    ELSE Find(s, pat, i + 1)

\* str::split_once(':'): the text before and after the first delimiter
split_once(s, c) ==
    LET i == Find(s, <<c>>, 1)
    IN  IF i = 0 THEN None
        ELSE Some(<<SubSeq(s, 1, i - 1), SubSeq(s, i + 1, Len(s))>>)

\* str::split(pat): always at least one piece, empty pieces kept
RECURSIVE split(_, _)
split(s, pat) ==
    LET i == Find(s, pat, 1)
    IN  IF i = 0 THEN <<s>>
        ELSE <<SubSeq(s, 1, i - 1)>> \o split(SubSeq(s, i + Len(pat), Len(s)), pat)

\* str::split_whitespace: the maximal runs of non-whitespace characters
RECURSIVE split_whitespace(_)
split_whitespace(s) ==
    LET t == TrimStart(s)
        FirstWs[i \in 1..(Len(t) + 1)] ==
            IF i > Len(t) \/ t[i] \in WhiteSpace THEN i ELSE FirstWs[i + 1]
    IN  IF t = <<>> THEN <<>>
        ELSE <<SubSeq(t, 1, FirstWs[1] - 1)>>
                 \o split_whitespace(SubSeq(t, FirstWs[1], Len(t)))

\* Iterator::last
last(xs) == IF xs = <<>> THEN None ELSE Some(xs[Len(xs)])

\* char::escape_debug as used by <str as Debug>::fmt
EscapeDebug(c) ==
    CASE c = "\"" -> <<"\\", "\"">>
      [] c = "\\" -> <<"\\", "\\">>
      [] c = "\n" -> <<"\\", "n">>
      [] c = "\r" -> <<"\\", "r">>
      [] c = "\t" -> <<"\\", "t">>
      [] c = NUL  -> <<"\\", "0">>
      [] OTHER    -> <<c>>

RECURSIVE DebugStr(_)
DebugStr(s) ==
    IF s = <<>> THEN <<>> ELSE EscapeDebug(Head(s)) \o DebugStr(Tail(s))

RECURSIVE DebugItems(_)
DebugItems(v) ==
    IF v = <<>> THEN <<>>
    ELSE <<"\"">> \o DebugStr(Head(v)) \o <<"\"">>
           \o (IF Len(v) > 1 THEN <<",", " ">> ELSE <<>>)
           \o DebugItems(Tail(v))

\* format!("{:?}", v) for v: Vec<String>
DebugVec(v) == <<"[">> \o DebugItems(v) \o <<"]">>

\* a format string with its one argument: format!(fmt, val)
Fmt(f, v) == [fmt |-> f, val |-> v]
Lit(f) == [fmt |-> f, val |-> <<>>]

----------------------------------------------------------------------------
(* The record *)

PIDInfo(p, e, r, c, cl, en) ==
    [pid |-> p, exe |-> e, root |-> r, cwd |-> c, cmdline |-> cl, environ |-> en]

\* the locals of new, and of the fs::read_to_string it is in: the open
\* descriptor, the buffer, its capacity, and the read(2) calls made on it
NoLocals == [exe |-> <<>>, root |-> <<>>, cwd |-> <<>>, cmdline |-> <<>>,
             environ |-> <<>>,
             fd |-> [entry |-> "none", task |-> 0, mm |-> 0, at |-> 0],
             buf |-> <<>>, cap |-> 0, chunks |-> <<>>]

Platforms == {"linux", "freebsd", "windows"}
Pids == {7, 1234}

----------------------------------------------------------------------------
(* linux: the observed process, as /proc/<pid>/ shows it *)

\* state: "alive", "zombie" (exited, not yet reaped) or "gone" (no such pid);
\* task names the process the pid stands for, mm its address space
Image(e, r, c, cl, en) ==
    [state |-> "alive", task |-> 1, mm |-> 1, exe |-> e, root |-> r, cwd |-> c,
     cmdline |-> cl, environ |-> en]

ImgEvil == Image(<<"/", "t", "m", "p", "/", "e", "v", "i", "l">>, <<"/">>,
                 <<"/", "t", "m", "p">>,
                 <<"e", "v", "i", "l", NUL, "-", "-", "f", "l", "a", "g", NUL>>,
                 <<"A", "=", "1", NUL>>)
ImgSh == Image(<<"/", "b", "i", "n", "/", "s", "h">>, <<"/">>, <<"/">>,
               <<"s", "h", NUL>>, <<"B", "=", "2", NUL, "C", "=", "3", NUL>>)
\* an executable whose path is not valid UTF-8
ImgRaw == Image(<<"/", "x", BadByte>>, <<"/", "j">>, <<"/">>, <<"x", NUL>>,
                <<"A", "=", "1", NUL>>)
\* a process whose argument vector is not valid UTF-8
ImgArg == Image(<<"/", "b", "i", "n", "/", "s", "h">>, <<"/">>, <<"/">>,
                <<"s", "h", NUL, BadByte, NUL>>, <<"A", "=", "1", NUL>>)

\* a process whose argument vector (37 bytes) and environment (40 bytes) are
\* longer than the first read of a file asks for
ImgLong == Image(<<"/", "t", "m", "p", "/", "e", "v", "i", "l">>, <<"/">>,
                 <<"/", "t", "m", "p">>,
                 <<"e", "v", "i", "l", NUL, "-", "-", "f", "l", "a", "g", "=",
                  "a", "a", "a", "a", "a", "a", "a", "a", "a", "a", "a", "a",
                  "a", "a", "a", "a", "a", "a", "a", "a", "b", "b", "b", "b",
                  NUL>>,
                 <<"A", "=", "1", NUL, "L", "O", "N", "G", "=", "c", "c", "c",
                  "c", "c", "c", "c", "c", "c", "c", "c", "c", "c", "c", "c",
                  "c", "c", "c", "c", "c", "c", "c", "c", "c", "c", "c", "c",
                  "c", "c", "c", NUL>>)

Images == {ImgEvil, ImgSh, ImgRaw, ImgArg, ImgLong}
Dirs == {<<"/">>, <<"/", "t", "m", "p">>}
\* no process has the pid
NoProc == [ImgSh EXCEPT !.state = "gone"]
\* the process of the pid has exited and waits for its parent
Zombie == [ImgSh EXCEPT !.state = "zombie"]

LinuxReading ==
    /\ platform = "linux"
    /\ pc \in {"new_exe", "new_root", "new_cwd",
               "new_cmdline", "cmdline_probe", "cmdline_read",
               "new_environ", "environ_probe", "environ_read"}

CanChange == LinuxReading /\ Len(hist) <= MaxChanges

\* a name for a task or an address space that did not exist before
Fresh == Len(hist) + 1

Becomes(p) == /\ p # proc
              /\ proc' = p
              /\ hist' = Append(hist, p)
              /\ UNCHANGED <<platform, pid, pc, reads, loc, result, cmds,
                             lastout, log, console, op, rendered>>

\* the process calls chdir(2)
Chdir == /\ CanChange
         /\ proc.state = "alive"
         /\ \E d \in Dirs : Becomes([proc EXCEPT !.cwd = d])

\* the process calls execve(2): new image in a new address space, same
\* directories
Execve == /\ CanChange
          /\ proc.state = "alive"
          /\ \E i \in Images :
               Becomes([proc EXCEPT !.exe = i.exe, !.cmdline = i.cmdline,
                                    !.environ = i.environ, !.mm = Fresh])

\* the process exits; it stays a zombie unless it is reaped at once
Exit == /\ CanChange
        /\ proc.state = "alive"
        /\ \E s \in {"zombie", "gone"} : Becomes([proc EXCEPT !.state = s])

\* the parent reaps the zombie
Reap == /\ CanChange
        /\ proc.state = "zombie"
        /\ Becomes([proc EXCEPT !.state = "gone"])

\* the free pid is given to a new process
Reuse == /\ CanChange
         /\ proc.state = "gone"
         /\ \E i \in Images : Becomes([i EXCEPT !.task = Fresh, !.mm = Fresh])

----------------------------------------------------------------------------
(* linux: the system calls behind fs::read_link and fs::read_to_string *)

\* fs::read_link(format!("/proc/{}/<entry>", pid)), one readlink(2); granted
\* is FALSE when the kernel refuses (EACCES) although the process exists
read_link(entry, granted) ==
    IF proc.state = "alive" /\ granted THEN Ok(proc[entry]) ELSE Err

\* File::open of /proc/<pid>/<entry>.  cmdline opens for a zombie too;
\* environ needs the address space and fails (ESRCH) without one.  The
\* descriptor stays bound to the task, and for environ to the address space,
\* it was opened on.
open(entry, granted) ==
    IF /\ granted
       /\ \/ proc.state = "alive"
          \/ proc.state = "zombie" /\ entry = "cmdline"
    THEN Ok([entry |-> entry, task |-> proc.task, mm |-> proc.mm, at |-> Len(hist)])
    ELSE Err

Slice(bytes, pos, count) ==
    SubSeq(bytes, pos + 1, IF pos + count < Len(bytes) THEN pos + count ELSE Len(bytes))

\* read(2) of count bytes at offset pos.  cmdline is taken from the task as
\* it is now: nothing for a zombie, ESRCH when the task is gone.  environ is
\* taken from the address space of the open: nothing once that is gone.
read(fd, pos, count) ==
    IF fd.entry = "cmdline"
    THEN IF proc.state = "gone" \/ proc.task # fd.task THEN Err
         ELSE IF proc.state = "zombie" THEN Ok(<<>>)
         ELSE Ok(Slice(proc.cmdline, pos, count))
    ELSE IF proc.state = "alive" /\ proc.task = fd.task /\ proc.mm = fd.mm
         THEN Ok(Slice(proc.environ, pos, count))
         ELSE Ok(<<>>)

\* std::io::default_read_to_end: the first read goes through a probe buffer
ProbeSize == 32
\* the least capacity a non-empty Vec<u8> is given
MinCap == 8

Max(x, y) == IF x < y THEN y ELSE x

\* Vec::extend_from_slice of n bytes onto the empty buffer
CapAfterProbe(n) == Max(MinCap, n)

\* buf.try_reserve(PROBE_SIZE) when the buffer is full
Reserved(len, cap) == IF len = cap THEN Max(2 * cap, len + ProbeSize) ELSE cap

NoFd == [entry |-> "none", task |-> 0, mm |-> 0, at |-> 0]

----------------------------------------------------------------------------
(* linux: PIDInfo::new, one step per system call *)

Observed(r) == Append(reads, [ok |-> r.tag = "Ok", at |-> Len(hist), chunks |-> <<>>])

LinuxFrame == UNCHANGED <<platform, pid, proc, hist, cmds, lastout, log, console,
                          op, rendered>>

\* the `?` of a read: the value is kept and the next read follows, or new
\* returns the error
LinuxStep(here, r, field, value, next) ==
    /\ pc = here
    /\ reads' = Observed(r)
    /\ IF r.tag = "Ok"
       THEN /\ loc' = [loc EXCEPT ![field] = value]
            /\ pc' = next
            /\ UNCHANGED result
       ELSE /\ result' = Err
            /\ pc' = "failed"
            /\ UNCHANGED loc
    /\ LinuxFrame

new_linux_exe ==
    /\ platform = "linux"
    /\ \E granted \in BOOLEAN :
         LET r == read_link("exe", granted)
         IN  LinuxStep("new_exe", r, "exe", display(r.val), "new_root")

\* Faulty variant: a failed read of the root link is replaced by a default value
new_linux_root_or_default ==
    \E granted \in BOOLEAN :
        LET r == read_link("root", granted)
        IN  /\ platform = "linux"
            /\ pc = "new_root"
            /\ reads' = Observed(r)
            /\ loc' = [loc EXCEPT !.root = IF r.tag = "Ok" THEN display(r.val) ELSE NA]
            /\ pc' = "new_cwd"
            /\ UNCHANGED result
            /\ LinuxFrame

new_linux_root ==
    /\ platform = "linux"
    /\ \E granted \in BOOLEAN :
         LET r == read_link("root", granted)
         IN  LinuxStep("new_root", r, "root", display(r.val), "new_cwd")

\* Faulty variant: the working directory is read from the root link
new_linux_cwd_from_root ==
    /\ platform = "linux"
    /\ \E granted \in BOOLEAN :
         LET r == read_link("root", granted)
         IN  LinuxStep("new_cwd", r, "cwd", display(r.val), "new_cmdline")

new_linux_cwd ==
    /\ platform = "linux"
    /\ \E granted \in BOOLEAN :
         LET r == read_link("cwd", granted)
         IN  LinuxStep("new_cwd", r, "cwd", display(r.val), "new_cmdline")

\* what read_to_string leaves behind when it returns
Closed == [loc EXCEPT !.fd = NoFd, !.buf = <<>>, !.cap = 0, !.chunks = <<>>]

\* read_to_string returns an error, and `?` returns it from new
ReadFailed(seen) ==
    /\ reads' = Append(reads, [ok |-> FALSE, at |-> loc.fd.at, chunks |-> seen])
    /\ result' = Err
    /\ pc' = "failed"
    /\ loc' = Closed

\* read_to_string: File::open, the first step of fs::read_to_string
FileOpen(entry, here, next) ==
    /\ pc = here
    /\ \E granted \in BOOLEAN :
         LET r == open(entry, granted)
         IN  IF r.tag = "Ok"
             THEN /\ loc' = [loc EXCEPT !.fd = r.val, !.buf = <<>>, !.cap = 0,
                                        !.chunks = <<>>]
                  /\ pc' = next
                  /\ UNCHANGED <<reads, result>>
             ELSE /\ reads' = Observed(r)
                  /\ result' = Err
                  /\ pc' = "failed"
                  /\ UNCHANGED loc
    /\ LinuxFrame

\* read_to_string: end of file was read.  The bytes must be UTF-8; cmdline is
\* then kept and environ opened next, environ completes Ok(PIDInfo { .. }).
FileDone(seen) ==
    IF ~ValidUtf8(loc.buf) THEN ReadFailed(seen)
    ELSE /\ reads' = Append(reads, [ok |-> TRUE, at |-> loc.fd.at, chunks |-> seen])
         /\ IF loc.fd.entry = "cmdline"
            THEN /\ loc' = [Closed EXCEPT !.cmdline = loc.buf]
                 /\ pc' = "new_environ"
                 /\ UNCHANGED result
            ELSE /\ loc' = [Closed EXCEPT !.environ = loc.buf]
                 /\ result' = Ok(PIDInfo(pid, loc.exe, loc.root, loc.cwd,
                                         loc.cmdline, loc.buf))
                 /\ pc' = "located"

\* read_to_string: one read(2) of count bytes at the end of the buffer, whose
\* capacity is cap once the bytes are in
FileRead(here, count, cap, again) ==
    /\ pc = here
    /\ LET r == read(loc.fd, Len(loc.buf), count)
           seen == Append(loc.chunks,
                          [at |-> Len(hist), pos |-> Len(loc.buf), count |-> count])
       IN  IF r.tag = "Err" THEN ReadFailed(seen)
           ELSE IF r.val = <<>> THEN FileDone(seen)
           ELSE /\ loc' = [loc EXCEPT !.buf = @ \o r.val, !.chunks = seen,
                                      !.cap = IF cap = 0 THEN CapAfterProbe(Len(r.val))
                                              ELSE cap]
                /\ pc' = again
                /\ UNCHANGED <<reads, result>>
    /\ LinuxFrame

new_linux_cmdline ==
    /\ platform = "linux"
    /\ FileOpen("cmdline", "new_cmdline", "cmdline_probe")

\* small_probe_read: the first read(2) asks for ProbeSize bytes
cmdline_probe ==
    /\ platform = "linux"
    /\ FileRead("cmdline_probe", ProbeSize, 0, "cmdline_read")

\* the loop of default_read_to_end: reserve when full, read into the spare
\* capacity
cmdline_read ==
    /\ platform = "linux"
    /\ FileRead("cmdline_read", Reserved(Len(loc.buf), loc.cap) - Len(loc.buf),
                Reserved(Len(loc.buf), loc.cap), "cmdline_read")

new_linux_environ ==
    /\ platform = "linux"
    /\ FileOpen("environ", "new_environ", "environ_probe")

environ_probe ==
    /\ platform = "linux"
    /\ FileRead("environ_probe", ProbeSize, 0, "environ_read")

environ_read ==
    /\ platform = "linux"
    /\ FileRead("environ_read", Reserved(Len(loc.buf), loc.cap) - Len(loc.buf),
                Reserved(Len(loc.buf), loc.cap), "environ_read")

new_linux == \/ new_linux_exe
             \/ new_linux_root
             \/ new_linux_cwd
             \/ new_linux_cmdline
             \/ cmdline_probe
             \/ cmdline_read
             \/ new_linux_environ
             \/ environ_probe
             \/ environ_read

----------------------------------------------------------------------------
(* The subprocess gateway *)

\* tools.rs exec_cmd: stdout and stderr always piped, stdin only on request
exec_cmd(cmd, args, stdin_req) ==
    [prog |-> cmd, args |-> args, stdout |-> "piped", stderr |-> "piped",
     stdin |-> IF stdin_req THEN "piped" ELSE "null"]

ExitCodes == {0, 1}

\* What spawning and waiting for a subprocess can give: spawn() fails, wait()
\* fails, or the child exits with a status and the output captured from it.
Outcomes(stdouts) ==
    {[kind |-> k, code |-> 0 - 1, stdout |-> <<>>] : k \in {"spawn_err", "wait_err"}}
      \cup {[kind |-> "exit", code |-> c, stdout |-> o] : c \in ExitCodes, o \in stdouts}

\* ExitStatus::success
success(o) == o.code = 0

\* .unwrap() of the spawn and of the wait
Unwrapped(o) == o.kind = "exit"

Spawned(c, o) == Append(cmds, [cmd |-> c, kind |-> o.kind, code |-> o.code])

\* sequences of 1..n elements of S
RECURSIVE SeqsUpTo(_, _)
SeqsUpTo(S, n) ==
    IF n = 0 THEN {}
    ELSE LET shorter == SeqsUpTo(S, n - 1)
         IN  {<<x>> : x \in S} \cup shorter
               \cup {Append(q, x) : q \in shorter, x \in S}

RECURSIVE Join(_, _)
Join(lines, sep) ==
    IF Len(lines) = 1 THEN lines[1]
    ELSE lines[1] \o sep \o Join(Tail(lines), sep)

----------------------------------------------------------------------------
(* freebsd: PIDInfo::new, one step per procstat invocation *)

HeaderPath == <<"P", "I", "D", " ", "C", "O", "M", "M", " ", "P", "A", "T", "H", "\n">>

\* outputs of `procstat -b <pid>`
ExeOutputs ==
    { HeaderPath \o <<"7", " ", "e", "v", "i", "l", " ", "/", "t", "m", "p", "/",
                       "e", "v", "i", "l", "\n">>,
      HeaderPath \o <<"7", " ", "x", " ", "/", "x", BadByte, "\n">>,
      HeaderPath,
      <<>> }

\* outputs of `procstat pwdx <pid>`
CwdOutputs ==
    { <<"7", ":", " ", "/", "t", "m", "p", "\n">>,
      <<"7", ":", " ", "/", "\n">>,
      <<"\n">> }

\* lines of `procstat pargs <pid>`, joined with "\n"
ArgLines ==
    { <<"7", ":", " ", "e", "v", "i", "l">>,
      <<"P", "I", "D", " ", "C", "O", "M", "M">>,
      <<"a", "r", "g", "v", "[", "0", "]", ":", " ", "e", "v", "i", "l">>,
      <<" ", "a", "r", "g", "v", "[", "1", "]", ":", " ", "-", "-", "k", ":", "v", " ">>,
      <<"a", "r", "g", "v", "[", "2", "]", ":">>,
      <<>> }

\* lines of `procstat penv <pid>`
EnvLines ==
    { <<"7", ":", " ", "e", "v", "i", "l">>,
      <<"e", "n", "v", "p", "[", "0", "]", ":", " ", "A", "=", "1">>,
      <<>> }

ArgOutputs == {Join(l, <<"\n">>) : l \in SeqsUpTo(ArgLines, MaxLines)}
EnvOutputs == {Join(l, <<"\n">>) : l \in SeqsUpTo(EnvLines, MaxLines)}

Panic == [tag |-> "Panic"]

\* pid.rs 115-119 and 133-137:
\*   for line in full.split('\n') { v.push(line.split_once(':').unwrap().1.trim()) }
\*   v.remove(0);
TableValues(full) ==
    LET lines == split(full, <<"\n">>)
        kv == [i \in DOMAIN lines |-> split_once(lines[i], ":")]
        v == [i \in DOMAIN lines |-> trim(kv[i].val[2])]
    IN  IF \E i \in DOMAIN lines : kv[i].tag = "None" THEN Panic
        ELSE IF v = <<>> THEN Panic
        ELSE Ok(Tail(v))

FreebsdFrame == UNCHANGED <<platform, pid, proc, hist, reads, console, op, rendered>>

Procstat(sub) == exec_cmd("procstat", <<Lit(sub), Fmt("{}", to_string(pid))>>, FALSE)

Panicked == pc' = "panicked" /\ UNCHANGED <<loc, result, log>>

\* the `false =>` arm: error!(..); return None
GiveUp(msg) ==
    /\ log' = Append(log, Fmt(msg, to_string(pid)))
    /\ result' = None
    /\ pc' = "failed"
    /\ UNCHANGED loc

\* split_whitespace().last().unwrap() of one procstat output
LastWord(here, field, full, next) ==
    LET w == last(split_whitespace(from_utf8_lossy(full)))
    IN  IF w.tag = "None" THEN Panicked
        ELSE /\ loc' = [loc EXCEPT ![field] = w.val]
             /\ pc' = next
             /\ UNCHANGED <<result, log>>

new_freebsd_exe ==
    /\ platform = "freebsd"
    /\ pc = "new_exe"
    /\ \E o \in Outcomes(ExeOutputs) :
         /\ cmds' = Spawned(Procstat("-b"), o)
         /\ lastout' = o.stdout
         /\ IF ~Unwrapped(o) THEN Panicked
            ELSE IF ~success(o) THEN GiveUp("Failed to get exe for PID {}")
            ELSE LastWord("new_exe", "exe", o.stdout, "new_cwd")
    /\ FreebsdFrame

\* Faulty variant: the exit status of `procstat pwdx` is not looked at
new_freebsd_cwd_unchecked ==
    /\ platform = "freebsd"
    /\ pc = "new_cwd"
    /\ \E o \in Outcomes(CwdOutputs) :
         /\ cmds' = Spawned(Procstat("pwdx"), o)
         /\ lastout' = o.stdout
         /\ IF ~Unwrapped(o) THEN Panicked
            ELSE LastWord("new_cwd", "cwd", o.stdout, "new_cmdline")
    /\ FreebsdFrame

new_freebsd_cwd ==
    /\ platform = "freebsd"
    /\ pc = "new_cwd"
    /\ \E o \in Outcomes(CwdOutputs) :
         /\ cmds' = Spawned(Procstat("pwdx"), o)
         /\ lastout' = o.stdout
         /\ IF ~Unwrapped(o) THEN Panicked
            ELSE IF ~success(o) THEN GiveUp("Failed to get cwd for PID {}")
            ELSE LastWord("new_cwd", "cwd", o.stdout, "new_cmdline")
    /\ FreebsdFrame

new_freebsd_cmdline ==
    /\ platform = "freebsd"
    /\ pc = "new_cmdline"
    /\ \E o \in Outcomes(ArgOutputs) :
         /\ cmds' = Spawned(Procstat("pargs"), o)
         /\ lastout' = o.stdout
         /\ IF ~Unwrapped(o) THEN Panicked
            ELSE IF ~success(o) THEN GiveUp("Failed to get cmdline for PID {}")
            ELSE LET v == TableValues(from_utf8_lossy(o.stdout))
                 IN  IF v.tag = "Panic" THEN Panicked
                     ELSE /\ loc' = [loc EXCEPT !.cmdline = v.val]
                          /\ pc' = "new_environ"
                          /\ UNCHANGED <<result, log>>
    /\ FreebsdFrame

\* the last invocation, and Some(PIDInfo { .. })
new_freebsd_environ ==
    /\ platform = "freebsd"
    /\ pc = "new_environ"
    /\ \E o \in Outcomes(EnvOutputs) :
         /\ cmds' = Spawned(Procstat("penv"), o)
         /\ lastout' = o.stdout
         /\ IF ~Unwrapped(o) THEN Panicked
            ELSE IF ~success(o) THEN GiveUp("Failed to get environ for PID {}")
            ELSE LET v == TableValues(from_utf8_lossy(o.stdout))
                 IN  IF v.tag = "Panic" THEN Panicked
                     ELSE /\ loc' = [loc EXCEPT !.environ = v.val]
                          /\ result' = Some(PIDInfo(pid, loc.exe, NA, loc.cwd,
                                                    DebugVec(loc.cmdline),
                                                    DebugVec(v.val)))
                          /\ pc' = "located"
                          /\ UNCHANGED log
    /\ FreebsdFrame

new_freebsd == \/ new_freebsd_exe
               \/ new_freebsd_cwd
               \/ new_freebsd_cmdline
               \/ new_freebsd_environ

----------------------------------------------------------------------------
(* windows: PIDInfo::new, one powershell query *)

ExecutablePath == <<"E", "x", "e", "c", "u", "t", "a", "b", "l", "e", "P", "a", "t", "h">>
CommandLine == <<"C", "o", "m", "m", "a", "n", "d", "L", "i", "n", "e">>

\* lines of the Format-List output, joined with "\r\n"
WmiLines ==
    { ExecutablePath \o <<" ", ":", " ", "C", ":", "\\", "e">>,
      ExecutablePath \o <<":">>,
      <<" ">> \o CommandLine \o <<"\t", ":", " ", "e", " ", "-", "f", " ">>,
      CommandLine \o <<" ", ":", " ", "z", "\n">>,
      <<"e", "x", "e", "c", "u", "t", "a", "b", "l", "e", "p", "a", "t", "h", ":", " ", "y">>,
      <<"N", "a", "m", "e", " ", ":", " ", "x">>,
      <<"g", "a", "r", "b", "a", "g", "e">>,
      <<>> }

WmiOutputs == {Join(l, <<"\r", "\n">>) : l \in SeqsUpTo(WmiLines, MaxLines)}

WmiQuery ==
    exec_cmd("powershell",
             <<Lit("-ExecutionPolicy"), Lit("Bypass"),
               Fmt("Get-WmiObject Win32_Process -Filter \"ProcessId = {}\" | Select-Object ExecutablePath, CommandLine | Format-List",
                   to_string(pid))>>,
             FALSE)

\* Faulty variant: the label is compared without being trimmed
AssignUntrimmed(out, comp) ==
    LET key_val == split_once(comp, ":")
    IN  IF key_val.tag = "None" THEN out
        ELSE LET key == key_val.val[1]
                 val == trim(key_val.val[2])
             IN  IF key = ExecutablePath THEN [out EXCEPT !.exe = val]
                 ELSE IF key = CommandLine THEN [out EXCEPT !.cmdline = val]
                 ELSE out

\* pid.rs 206-221: the body of `for comp in comps`
Assign(out, comp) ==
    LET key_val == split_once(comp, ":")
    IN  IF key_val.tag = "None" THEN out
        ELSE LET key == trim(key_val.val[1])
                 val == trim(key_val.val[2])
             IN  IF key = ExecutablePath THEN [out EXCEPT !.exe = val]
                 ELSE IF key = CommandLine THEN [out EXCEPT !.cmdline = val]
                 ELSE out

RECURSIVE AssignAll(_, _)
AssignAll(out, comps) ==
    IF comps = <<>> THEN out
    ELSE AssignAll(Assign(out, Head(comps)), Tail(comps))

new_windows ==
    /\ platform = "windows"
    /\ pc = "new_exe"
    /\ \E o \in Outcomes(WmiOutputs) :
         /\ cmds' = Spawned(WmiQuery, o)
         /\ lastout' = o.stdout
         /\ IF ~Unwrapped(o) THEN Panicked
            ELSE IF ~success(o)
            THEN /\ log' = Append(log, Lit("Failed to get process info"))
                 /\ result' = None
                 /\ pc' = "failed"
                 /\ UNCHANGED loc
            ELSE /\ result' = Some(AssignAll(PIDInfo(pid, NA, NA, NA, NA, NA),
                                             split(from_utf8_lossy(o.stdout),
                                                   <<"\r", "\n">>)))
                 /\ pc' = "located"
                 /\ UNCHANGED <<loc, log>>
    /\ UNCHANGED <<platform, pid, proc, hist, reads, console, op, rendered>>

----------------------------------------------------------------------------
(* impl Display for PIDInfo *)

Bar == <<" ", "|", " ">>

\* Faulty variant: root and cwd change places
fmt_swapped(self) ==
    to_string(self.pid) \o Bar \o self.exe \o Bar \o self.cwd \o Bar \o self.root
      \o Bar \o self.cmdline

\* write!(f, "{} | {} | {} | {} | {}", pid, exe, root, cwd, cmdline)
fmt(self) ==
    to_string(self.pid) \o Bar \o self.exe \o Bar \o self.root \o Bar \o self.cwd
      \o Bar \o self.cmdline

\* the caller formats the record it was given
Render ==
    /\ pc = "located"
    /\ op = "none"
    /\ op' = "fmt"
    /\ rendered' = fmt(result.val)
    /\ pc' = "returned"
    /\ UNCHANGED <<platform, pid, proc, hist, reads, loc, result, cmds, lastout,
                   log, console>>

----------------------------------------------------------------------------
(* The lookup: a caller hands a pid to PIDInfo::new *)

Init ==
    /\ platform \in Platforms
    /\ pid \in Pids
    /\ pc = "new_exe"
    /\ proc \in IF platform = "linux" THEN Images \cup {Zombie, NoProc} ELSE {NoProc}
    /\ hist = <<proc>>
    /\ reads = <<>>
    /\ loc = NoLocals
    /\ result = NoResult
    /\ cmds = <<>>
    /\ lastout = <<>>
    /\ log = <<>>
    /\ console = <<>>
    /\ op = "none"
    /\ rendered = <<>>

Next == \/ Chdir
        \/ Execve
        \/ Exit
        \/ Reap
        \/ Reuse
        \/ new_linux
        \/ new_freebsd
        \/ new_windows
        \/ Render

Spec == Init /\ [][Next]_vars

----------------------------------------------------------------------------
(* PIDInfo::terminate and PIDInfo::quarantine *)

self == result.val

QuarantineDir == <<".", "/", "q", "u", "a", "r", "a", "n", "t", "i", "n", "e">>
QuarantineDirWin == <<".", "\\", "q", "u", "a", "r", "a", "n", "t", "i", "n", "e">>

ActFrame == UNCHANGED <<platform, pid, proc, hist, reads, loc, result, lastout,
                        rendered>>

\* exec_cmd(..).unwrap().wait().unwrap().success(), and error!(msg, arg) if not
Kill(cmd, msg, arg) ==
    /\ pc = "located"
    /\ op = "none"
    /\ op' = "terminate"
    /\ \E o \in Outcomes({<<>>}) :
         /\ cmds' = Spawned(cmd, o)
         /\ IF ~Unwrapped(o) THEN pc' = "panicked" /\ UNCHANGED log
            ELSE /\ pc' = "returned"
                 /\ log' = IF success(o) THEN log ELSE Append(log, Fmt(msg, arg))
    /\ UNCHANGED console
    /\ ActFrame

terminate_linux ==
    /\ platform = "linux"
    /\ Kill(exec_cmd("kill", <<Lit("-9"), Fmt("{}", to_string(self.pid))>>, FALSE),
            "Failed to terminate PID {}", to_string(self.pid))

terminate_freebsd ==
    /\ platform = "freebsd"
    /\ Kill(exec_cmd("kill", <<Lit("-9"), Fmt("{}", to_string(self.pid))>>, FALSE),
            "Failed to terminate PID {}", to_string(self.pid))

terminate_windows ==
    /\ platform = "windows"
    /\ Kill(exec_cmd("taskkill",
                     <<Lit("/PID"), Fmt("{}", to_string(self.pid)), Lit("/F")>>, FALSE),
            "Failed to terminate PID {}", self.exe)

\* Faulty variant: both steps report through the same message
quarantine_mv_same_message ==
    /\ platform \in {"linux", "freebsd"}
    /\ pc = "located"
    /\ op = "none"
    /\ op' = "quarantine"
    /\ \E o \in Outcomes({<<>>}) :
         /\ cmds' = Spawned(exec_cmd("mv", <<Fmt("{}", self.exe),
                                              Fmt("{}", QuarantineDir)>>, FALSE), o)
         /\ IF ~Unwrapped(o) THEN pc' = "panicked" /\ UNCHANGED log
            ELSE /\ pc' = "quarantine_chmod"
                 /\ log' = IF success(o) THEN log
                           ELSE Append(log, Fmt("Failed to chmod exe {}", self.exe))
    /\ UNCHANGED console
    /\ ActFrame

\* linux 53-60, freebsd 161-168: the move into ./quarantine
quarantine_mv ==
    /\ platform \in {"linux", "freebsd"}
    /\ pc = "located"
    /\ op = "none"
    /\ op' = "quarantine"
    /\ \E o \in Outcomes({<<>>}) :
         /\ cmds' = Spawned(exec_cmd("mv", <<Fmt("{}", self.exe),
                                              Fmt("{}", QuarantineDir)>>, FALSE), o)
         /\ IF ~Unwrapped(o) THEN pc' = "panicked" /\ UNCHANGED log
            ELSE /\ pc' = "quarantine_chmod"
                 /\ log' = IF success(o) THEN log
                           ELSE Append(log, Fmt("Failed to move exe {}", self.exe))
    /\ UNCHANGED console
    /\ ActFrame

\* linux 61-68, freebsd 169-176: chmod 444 of the path the record holds
quarantine_chmod ==
    /\ platform \in {"linux", "freebsd"}
    /\ pc = "quarantine_chmod"
    /\ \E o \in Outcomes({<<>>}) :
         /\ cmds' = Spawned(exec_cmd("chmod", <<Lit("444"), Fmt("{}", self.exe)>>,
                                     FALSE), o)
         /\ IF ~Unwrapped(o) THEN pc' = "panicked" /\ UNCHANGED log
            ELSE /\ pc' = "returned"
                 /\ log' = IF success(o) THEN log
                           ELSE Append(log, Fmt("Failed to chmod exe {}", self.exe))
    /\ UNCHANGED <<console, op>>
    /\ ActFrame

\* windows 237-247: the move, then a request printed for the operator
quarantine_windows ==
    /\ platform = "windows"
    /\ pc = "located"
    /\ op = "none"
    /\ op' = "quarantine"
    /\ \E o \in Outcomes({<<>>}) :
         /\ cmds' = Spawned(exec_cmd("move", <<Fmt("{}", self.exe),
                                                Fmt("{}", QuarantineDirWin)>>, FALSE), o)
         /\ IF ~Unwrapped(o) THEN pc' = "panicked" /\ UNCHANGED <<log, console>>
            ELSE /\ pc' = "returned"
                 /\ log' = IF success(o) THEN log
                           ELSE Append(log, Fmt("Failed to move exe {}", self.exe))
                 /\ console' = Append(console,
                        "Please revoke all execution access, or get this thing out of here")
    /\ ActFrame

\* records PIDInfo::new returns on each platform
Located ==
    [linux |-> {Ok(PIDInfo(p, display(i.exe), display(i.root), display(i.cwd),
                           i.cmdline, i.environ)) : p \in Pids, i \in {ImgEvil, ImgRaw}},
     freebsd |-> {Some(PIDInfo(p, e, NA, <<"/">>, DebugVec(<<>>), DebugVec(<<>>))) :
                    p \in Pids, e \in {ImgEvil.exe, <<"P", "A", "T", "H">>}},
     windows |-> {Some(PIDInfo(p, e, NA, NA, NA, NA)) :
                    p \in Pids, e \in {<<"C", ":", "\\", "e">>, NA}}]

\* a caller holding a record invokes one of its methods
InitAct ==
    /\ platform \in Platforms
    /\ result \in Located[platform]
    /\ pid = result.val.pid
    /\ pc = "located"
    /\ proc = NoProc
    /\ hist = <<proc>>
    /\ reads = <<>>
    /\ loc = NoLocals
    /\ cmds = <<>>
    /\ lastout = <<>>
    /\ log = <<>>
    /\ console = <<>>
    /\ op = "none"
    /\ rendered = <<>>

NextAct == \/ terminate_linux
           \/ terminate_freebsd
           \/ terminate_windows
           \/ quarantine_mv
           \/ quarantine_chmod
           \/ quarantine_windows

SpecAct == InitAct /\ [][NextAct]_vars

----------------------------------------------------------------------------
(* Properties of the linux lookup *)

AllOk(rs) == \A i \in DOMAIN rs : rs[i].ok

\* the process state the k-th read looked at: for a link its readlink, for a
\* file its open
SeenBy(k) == hist[reads[k].at]

\* record r is what process state p shows
Shows(p, r) ==
    /\ p.state = "alive"
    /\ r.exe = display(p.exe)
    /\ r.root = display(p.root)
    /\ r.cwd = display(p.cwd)
    /\ r.cmdline = p.cmdline
    /\ r.environ = p.environ

\* the bytes read(2) call c on the file of the k-th read was given: those at
\* its offset of what the process showed at its instant, nothing once the
\* process opened has exited or, for environ, replaced its image
Piece(k, c) ==
    LET o == SeenBy(k)
        p == hist[c.at]
    IN  IF /\ p.state = "alive"
           /\ p.task = o.task
           /\ k = 5 => p.mm = o.mm
        THEN Slice(IF k = 4 THEN p.cmdline ELSE p.environ, c.pos, c.count)
        ELSE <<>>

RECURSIVE Pieces(_, _)
\* the pieces of the first n read(2) calls on the file of the k-th read, joined
Pieces(k, n) ==
    IF n = 0 THEN <<>> ELSE Pieces(k, n - 1) \o Piece(k, reads[k].chunks[n])

Assembled(k) == Pieces(k, Len(reads[k].chunks))

\* the read(2) calls on the file of the k-th read went from the start to the
\* end of file: the first asks for ProbeSize bytes at offset 0, each next one
\* starts where the pieces so far end, and only the last one is given nothing
Sequential(k) ==
    LET cs == reads[k].chunks
    IN  /\ cs # <<>>
        /\ cs[1].count = ProbeSize
        /\ \A n \in DOMAIN cs :
             /\ cs[n].pos = Len(Pieces(k, n - 1))
             /\ cs[n].count > 0
             /\ reads[k].at <= cs[n].at
             /\ n > 1 => cs[n - 1].at <= cs[n].at
             /\ Piece(k, cs[n]) = <<>> <=> n = Len(cs)

\* the instant of the last system call of the k-th read
LastAt(k) ==
    IF reads[k].chunks = <<>> THEN reads[k].at
    ELSE reads[k].chunks[Len(reads[k].chunks)].at

\* C1: on linux PIDInfo::new is all-or-nothing.  While it runs nothing is
\* returned and every read so far succeeded; it returns a record exactly when
\* all five reads succeeded, every field then being the value its read gave
\* (none missing, none defaulted); and it returns the error exactly when the
\* read it just made failed, all reads before it having succeeded.
C1_AllOrNothing ==
    platform = "linux" =>
      /\ LinuxReading => result = NoResult /\ AllOk(reads)
      /\ ~LinuxReading => result.tag \in {"Ok", "Err"}
      /\ result.tag = "Ok" <=> (Len(reads) = 5 /\ AllOk(reads))
      /\ result.tag = "Err" <=>
           /\ reads # <<>>
           /\ ~reads[Len(reads)].ok
           /\ AllOk(SubSeq(reads, 1, Len(reads) - 1))
      /\ result.tag = "Ok" =>
           /\ DOMAIN result.val = {"pid", "exe", "root", "cwd", "cmdline", "environ"}
           /\ result.val.pid = pid
           /\ result.val.exe = display(SeenBy(1).exe)
           /\ result.val.root = display(SeenBy(2).root)
           /\ result.val.cwd = display(SeenBy(3).cwd)
           /\ result.val.cmdline = Assembled(4)
           /\ result.val.environ = Assembled(5)

\* the third read fails after two that succeeded, and the lookup fails
C1_Witness ==
    /\ platform = "linux"
    /\ pc = "failed"
    /\ result = Err
    /\ Len(reads) = 3
    /\ reads[1].ok /\ reads[2].ok /\ ~reads[3].ok

\* C10 as stated: every record returned is what the process showed at one
\* single instant of the lookup.
C10_SingleInstant ==
    (platform = "linux" /\ result.tag = "Ok") =>
        \E i \in DOMAIN hist : Shows(hist[i], result.val)

\* C10 amended: exe, root and cwd of a returned record are each what the
\* process showed at the instant of that field's own link read; cmdline and
\* environ are each the pieces given to the successive read(2) calls on the
\* file, joined, every piece being the bytes at its offset of what the process
\* showed at the instant of that call; the instants come in program order; and
\* they are one instant when the process did not change between the first
\* system call of the lookup and the last.
C10_InstantPerField ==
    (platform = "linux" /\ result.tag = "Ok") =>
        /\ Len(reads) = 5
        /\ \A k \in 1..4 : LastAt(k) <= reads[k + 1].at
        /\ \A k \in {1, 2, 3, 5} : SeenBy(k).state = "alive"
        /\ SeenBy(4).state \in {"alive", "zombie"}
        /\ \A k \in 1..3 : reads[k].chunks = <<>>
        /\ result.val.exe = display(SeenBy(1).exe)
        /\ result.val.root = display(SeenBy(2).root)
        /\ result.val.cwd = display(SeenBy(3).cwd)
        /\ Sequential(4)
        /\ result.val.cmdline = Assembled(4)
        /\ Sequential(5)
        /\ result.val.environ = Assembled(5)
        /\ reads[1].at = LastAt(5) => Shows(SeenBy(1), result.val)

\* a record is returned whose argument vector the process never had: it is
\* part of one image's followed by part of another's
C10_Witness ==
    /\ platform = "linux"
    /\ result.tag = "Ok"
    /\ reads[1].at < LastAt(5)
    /\ \A i \in DOMAIN hist : result.val.cmdline # hist[i].cmdline
    /\ \A i \in DOMAIN hist : ~Shows(hist[i], result.val)

----------------------------------------------------------------------------
(* Properties of the freebsd lookup *)

Exited(c) == c.kind = "exit"
Failed(c) == c.kind = "exit" /\ c.code # 0
Sub(c) == c.cmd.args[1].fmt

\* C5: on freebsd a procstat invocation that exits non-zero ends the lookup
\* at once with None (it is the last invocation made, nothing is returned but
\* None); a record is returned only after the four invocations -b, pwdx,
\* pargs, penv each exited zero; and None is returned for no other reason.
C5_NonZeroExitFails ==
    platform = "freebsd" =>
      /\ \A i \in DOMAIN cmds :
           Failed(cmds[i]) => /\ i = Len(cmds)
                              /\ pc = "failed"
                              /\ result = None
      /\ result.tag = "Some" =>
           /\ Len(cmds) = 4
           /\ \A i \in 1..4 : Exited(cmds[i]) /\ cmds[i].code = 0
           /\ <<Sub(cmds[1]), Sub(cmds[2]), Sub(cmds[3]), Sub(cmds[4])>>
                = <<"-b", "pwdx", "pargs", "penv">>
      /\ (pc = "failed" \/ result = None) =>
           /\ pc = "failed"
           /\ result = None
           /\ Failed(cmds[Len(cmds)])

\* pargs exits non-zero after -b and pwdx exited zero, and the lookup fails
C5_Witness ==
    /\ platform = "freebsd"
    /\ pc = "failed"
    /\ result = None
    /\ Len(cmds) = 3
    /\ cmds[1].code = 0 /\ cmds[2].code = 0 /\ cmds[3].code = 1

\* the lookup has just read, with exit status zero, a "label: value" table
TableRead ==
    /\ platform = "freebsd"
    /\ cmds # <<>>
    /\ Sub(cmds[Len(cmds)]) \in {"pargs", "penv"}
    /\ Exited(cmds[Len(cmds)])
    /\ cmds[Len(cmds)].code = 0

\* the vector the table just read was parsed into
TableData == IF Sub(cmds[Len(cmds)]) = "pargs" THEN loc.cmdline ELSE loc.environ

TableLines == split(from_utf8_lossy(lastout), <<"\n">>)

\* the trimmed text after the first colon
Value(line) == trim(split_once(line, ":").val[2])

\* C6: header-discard.  An output of N >= 1 lines is parsed, without a crash,
\* into the values of its lines 1..N-1 in order (line 0, the header, is
\* dropped unread), which for N = 1 is the empty vector.
C6_HeaderDiscard ==
    TableRead =>
      /\ pc # "panicked"
      /\ Len(TableData) = Len(TableLines) - 1
      /\ \A i \in 1..Len(TableData) :
           split_once(TableLines[i + 1], ":").tag = "Some"
             => TableData[i] = Value(TableLines[i + 1])

RECURSIVE ColonValues(_)
ColonValues(lines) ==
    IF lines = <<>> THEN <<>>
    ELSE (IF split_once(Head(lines), ":").tag = "Some"
          THEN <<Value(Head(lines))>> ELSE <<>>) \o ColonValues(Tail(lines))

\* C7: colon-split in both parsers.  A line with a colon gives the trimmed
\* text before and after its first colon; a line without one gives nothing
\* and never crashes the lookup.
C7_ColonSplit ==
    /\ TableRead =>
         /\ pc # "panicked"
         /\ TableData = ColonValues(Tail(TableLines))
    /\ (platform = "windows" /\ cmds # <<>> /\ Exited(cmds[1]) /\ cmds[1].code = 0) =>
         /\ pc # "panicked"
         /\ result.tag = "Some"

----------------------------------------------------------------------------
(* Properties of the windows lookup *)

WmiText == from_utf8_lossy(lastout)

\* where a line terminator "\r\n" begins in the query's output
Breaks == {i \in 1..(Len(WmiText) - 1) : WmiText[i] = "\r" /\ WmiText[i + 1] = "\n"}

\* where a line begins, and the line beginning there
Starts == {1} \cup {i + 2 : i \in Breaks}
LineEnd(a) ==
    IF \E i \in Breaks : i >= a
    THEN (CHOOSE i \in Breaks : i >= a /\ \A j \in Breaks : j >= a => i <= j) - 1
    ELSE Len(WmiText)
LineAt(a) == SubSeq(WmiText, a, LineEnd(a))

HasColon(l) == \E i \in DOMAIN l : l[i] = ":"
FirstColon(l) == CHOOSE i \in DOMAIN l : l[i] = ":" /\ \A j \in 1..(i - 1) : l[j] # ":"

\* s without the whitespace at its two ends
Stripped(s) ==
    LET ink == {i \in DOMAIN s : s[i] \notin WhiteSpace}
    IN  IF ink = {} THEN <<>>
        ELSE SubSeq(s, CHOOSE i \in ink : \A j \in ink : i <= j,
                       CHOOSE i \in ink : \A j \in ink : j <= i)

LabelOf(l) == Stripped(SubSeq(l, 1, FirstColon(l) - 1))
ValueOf(l) == Stripped(SubSeq(l, FirstColon(l) + 1, Len(l)))

\* the value of the last line labelled lab, the sentinel if there is none
Field(lab) ==
    LET at == {a \in Starts : HasColon(LineAt(a)) /\ LabelOf(LineAt(a)) = lab}
    IN  IF at = {} THEN NA
        ELSE ValueOf(LineAt(CHOOSE a \in at : \A b \in at : b <= a))

\* C8: on windows, when the query exits zero, the record returned has exe
\* from the line labelled exactly ExecutablePath and cmdline from the line
\* labelled exactly CommandLine (the last such line; N/A when there is
\* none), no other line changes anything or fails the lookup, and root, cwd
\* and environ are N/A.
C8_WmiRecord ==
    (platform = "windows" /\ cmds # <<>> /\ Exited(cmds[1]) /\ cmds[1].code = 0) =>
        /\ result.tag = "Some"
        /\ result.val = PIDInfo(pid, Field(ExecutablePath), NA, NA,
                                Field(CommandLine), NA)

\* both labels are found, padded, among lines of other labels and of none
C8_Witness ==
    /\ platform = "windows"
    /\ result.tag = "Some"
    /\ result.val.exe = <<"C", ":", "\\", "e">>
    /\ result.val.cmdline = <<"e", " ", "-", "f">>
    /\ Cardinality(Starts) = 3
    /\ \E a \in Starts : ~HasColon(LineAt(a))

----------------------------------------------------------------------------
(* Properties of the rendering *)

IsDigit(c) == \E d \in 1..10 : Digits[d] = c
DigitValue(c) == (CHOOSE d \in 1..10 : Digits[d] = c) - 1

RECURSIVE Decimal(_)
Decimal(ds) ==
    IF ds = <<>> THEN 0
    ELSE 10 * Decimal(SubSeq(ds, 1, Len(ds) - 1)) + DigitValue(ds[Len(ds)])

ScenarioA ==
    <<"1", "2", "3", "4", " ", "|", " ", "/", "t", "m", "p", "/", "e", "v", "i", "l",
      " ", "|", " ", "/", " ", "|", " ", "/", "t", "m", "p", " ", "|", " ",
      "e", "v", "i", "l", NUL, "-", "-", "f", "l", "a", "g", NUL>>

\* C9: the rendering of a record is the decimal pid, then exe, root, cwd and
\* cmdline, in that order and unmodified, each preceded by " | "; environ is
\* not part of it; the record of scenario A renders as the text given there.
C9_Rendering ==
    op = "fmt" =>
      LET r == result.val
          n == Len(rendered) - (12 + Len(r.exe) + Len(r.root) + Len(r.cwd) + Len(r.cmdline))
          a == n + 3
          b == a + Len(r.exe) + 3
          c == b + Len(r.root) + 3
          d == c + Len(r.cwd) + 3
      IN  /\ n >= 1
          /\ \A i \in 1..n : IsDigit(rendered[i])
          /\ n > 1 => rendered[1] # "0"
          /\ Decimal(SubSeq(rendered, 1, n)) = r.pid
          /\ \A k \in {n, a + Len(r.exe), b + Len(r.root), c + Len(r.cwd)} :
               SubSeq(rendered, k + 1, k + 3) = <<" ", "|", " ">>
          /\ SubSeq(rendered, a + 1, a + Len(r.exe)) = r.exe
          /\ SubSeq(rendered, b + 1, b + Len(r.root)) = r.root
          /\ SubSeq(rendered, c + 1, c + Len(r.cwd)) = r.cwd
          /\ SubSeq(rendered, d + 1, Len(rendered)) = r.cmdline
          /\ (r.pid = 1234 /\ Shows(ImgEvil, r)) => rendered = ScenarioA

\* the record of scenario A has been rendered
C9_Witness ==
    /\ op = "fmt"
    /\ platform = "linux"
    /\ result.val.pid = 1234
    /\ Shows(ImgEvil, result.val)
    /\ rendered = ScenarioA

----------------------------------------------------------------------------
(* Properties of terminate and quarantine *)

Over == pc \in {"returned", "panicked"}

\* C2: quarantine always attempts both steps.  Whatever came of the move, a
\* second command, the permission change, has been issued when quarantine is
\* over, and it names the path the record holds.
C2_BothStepsAttempted ==
    (op = "quarantine" /\ Over) =>
        /\ Len(cmds) = 2
        /\ \E i \in DOMAIN cmds[2].cmd.args : cmds[2].cmd.args[i] = Fmt("{}", self.exe)

\* C3: terminate never aborts its caller.  Whatever came of the kill request
\* terminate returns, and when the request did not succeed a diagnostic
\* naming the pid of the record has been logged.
C3_TerminateReturns ==
    (op = "terminate" /\ pc # "located") =>
        /\ pc = "returned"
        /\ cmds[1].code # 0 => \E i \in DOMAIN log : log[i].val = to_string(self.pid)

MoveFailed == Fmt("Failed to move exe {}", self.exe)
ChmodFailed == Fmt("Failed to chmod exe {}", self.exe)

\* C4: on linux and freebsd a quarantine that returned has reported each of
\* its two steps on its own: the log holds the move diagnostic exactly when
\* the move exited non-zero, the chmod diagnostic exactly when chmod exited
\* non-zero, in that order and nothing else, so that the log is empty exactly
\* when both steps succeeded.
C4_StepOutcomes ==
    (platform \in {"linux", "freebsd"} /\ op = "quarantine" /\ pc = "returned") =>
        LET mv == cmds[1].code = 0
            ch == cmds[2].code = 0
        IN  /\ log = (IF mv THEN <<>> ELSE <<MoveFailed>>)
                       \o (IF ch THEN <<>> ELSE <<ChmodFailed>>)
            /\ (\E i \in DOMAIN log : log[i] = MoveFailed) <=> ~mv
            /\ (\E i \in DOMAIN log : log[i] = ChmodFailed) <=> ~ch
            /\ log = <<>> <=> (mv /\ ch)

\* scenario B: the move exits 0, the permission change exits 1
C4_Witness ==
    /\ platform \in {"linux", "freebsd"}
    /\ op = "quarantine"
    /\ pc = "returned"
    /\ self.exe = <<"/", "t", "m", "p", "/", "e", "v", "i", "l">>
    /\ cmds[1].code = 0
    /\ cmds[2].code = 1
    /\ log = <<ChmodFailed>>

====
